---- MODULE Spec2Model ----
(***************************************************************************)
(* Optimistic mutation protocol of the kanban board (KanbanBoard.tsx,      *)
(* newest revision) together with the debounced label update of            *)
(* TodoistService.  The remote service, the query cache, the mutations in  *)
(* progress, the debounce table and the toast are the state; one action    *)
(* per handler / timer / network completion.                               *)
(*                                                                         *)
(* Library semantics relied upon (TanStack Query): mutate() runs onMutate, *)
(* mutationFn, then onSuccess|onError, then onSettled; cancelQueries drops *)
(* an in-flight fetch of the tasks query; invalidateQueries on an observed *)
(* query with data cancels an in-flight fetch and starts a new one;        *)
(* setQueryData clears the query's error; useIsFetching counts queries     *)
(* (not mutations) that are fetching.  The rendered `tasks` projection is  *)
(* taken to follow the cache without delay.                                *)
(***************************************************************************)
EXTENDS Integers, Sequences, FiniteSets, TLC

(* ------------------------------ bounds --------------------------------- *)
\* number of mutation invocations of a session of the board
MaxMut == 2

\* number of moves of a session in which one card is moved again and again
MaxMoves == 3

\* slots of the mutation table
MaxSlots == IF MaxMut > MaxMoves THEN MaxMut ELSE MaxMoves

(* --------------------------- program constants ------------------------- *)
\* columns, in board order
columns == <<"NOT_SET", "TODO", "IN_PROGRESS", "BLOCKED", "DONE">>

\* keys of KANBAN_LABELS in declaration order (Object.keys / Object.entries)
KanbanKeys ==
  <<"KANBAN_NOT_SET", "KANBAN_TODO", "KANBAN_IN_PROGRESS", "KANBAN_BLOCKED",
    "KANBAN_DONE">>

\* the label -> column mapping
KANBAN_LABELS ==
  ("KANBAN_NOT_SET" :> "NOT_SET") @@ ("KANBAN_TODO" :> "TODO") @@
  ("KANBAN_IN_PROGRESS" :> "IN_PROGRESS") @@ ("KANBAN_BLOCKED" :> "BLOCKED") @@
  ("KANBAN_DONE" :> "DONE")

\* null id (no parent, no selection, no task)
Null == 0

(* ------------------------------ inputs --------------------------------- *)
\* label lists task 1 may carry on the remote service at start
InitLabels ==
  { <<>>, <<"KANBAN_DONE", "work", "KANBAN_TODO", "home">> }

\* the calendar day of the session, as a day number (`new Date()`)
Today == 2

\* the title typed into the create dialog
Title == "New"

\* a task of the service: the fields of Task the board reads; `due` is the
\* day number of due.date, Null when the task has no due date
NewTask(id, content, labels, parentId, projectId, priority, due) ==
  [ id |-> id, content |-> content, labels |-> labels, parentId |-> parentId,
    projectId |-> projectId, priority |-> priority, due |-> due ]

\* the remote collection at start: two root tasks and one subtask of task 1
InitRemote(l) ==
  << NewTask(1, "A", l, Null, "p1", 1, Today),
     NewTask(2, "B", <<"KANBAN_REVIEW", "KANBAN_IN_PROGRESS">>, Null,
             "p1", 1, Today),
     NewTask(3, "C", <<>>, 1, "p1", 1, Null) >>

\* ids that no task carries (a drop of foreign drag data)
ForeignIds == {9}

\* id the service gives the task created by mutation m
NewId(m) == 10 + m

\* id of the placeholder of mutation m  (`temp-${Date.now()}`)
TempId(m) == 20 + m

\* columns a card is dropped on
DropColumns == {"TODO", "DONE"}

(* --------------------------- pure functions ---------------------------- *)
\* Object.keys(KANBAN_LABELS).includes(label)
IsKanbanLabel(label) == label \in DOMAIN KANBAN_LABELS

\* labels.filter(label => !Object.keys(KANBAN_LABELS).includes(label))
RECURSIVE StripKanban(_)
StripKanban(labels) ==
  IF labels = <<>> THEN <<>>
  ELSE IF IsKanbanLabel(Head(labels)) THEN StripKanban(Tail(labels))
       ELSE <<Head(labels)>> \o StripKanban(Tail(labels))

\* Object.entries(KANBAN_LABELS).find(([, value]) => value === newColumn)?.[0]
RECURSIVE FindKey(_, _)
FindKey(keys, newColumn) ==
  IF keys = <<>> THEN "undefined"
  ELSE IF KANBAN_LABELS[Head(keys)] = newColumn THEN Head(keys)
       ELSE FindKey(Tail(keys), newColumn)

NewKanbanLabel(newColumn) == FindKey(KanbanKeys, newColumn)

\* the label list mutationFn sends: strip, then push the key of the column
SentLabels(labels, newColumn) ==
  StripKanban(labels) \o <<NewKanbanLabel(newColumn)>>

\* variant: onMutate appends the new label without the strip
OptimisticLabels_NoStrip(labels, newColumn) ==
  labels \o <<"KANBAN_" \o newColumn>>

\* the label list onMutate writes: strip, then `KANBAN_${newColumn}`
OptimisticLabels(labels, newColumn) ==
  StripKanban(labels) \o <<"KANBAN_" \o newColumn>>

\* variant: the last label that names a column decides
RECURSIVE ColumnOf_Last(_)
ColumnOf_Last(labels) ==
  IF labels = <<>> THEN "NOT_SET"
  ELSE IF IsKanbanLabel(labels[Len(labels)])
         THEN KANBAN_LABELS[labels[Len(labels)]]
         ELSE ColumnOf_Last(SubSeq(labels, 1, Len(labels) - 1))

\* labels.find(label => Object.keys(KANBAN_LABELS).includes(label)) -> column
RECURSIVE ColumnOf(_)
ColumnOf(labels) ==
  IF labels = <<>> THEN "NOT_SET"
  ELSE IF IsKanbanLabel(Head(labels)) THEN KANBAN_LABELS[Head(labels)]
       ELSE ColumnOf(Tail(labels))

\* ids of a collection
Ids(coll) == { coll[i].id : i \in 1..Len(coll) }

\* the task with a given id in a collection (callers check membership)
TaskOf(coll, taskId) ==
  coll[CHOOSE i \in 1..Len(coll) : coll[i].id = taskId]

\* variant: the task and every task after it are dropped
RemoveTask_AndRest(coll, taskId) ==
  IF \E i \in 1..Len(coll) : coll[i].id = taskId
  THEN SubSeq(coll, 1, (CHOOSE i \in 1..Len(coll) : coll[i].id = taskId) - 1)
  ELSE coll

\* oldData.filter(t => t.id !== taskId)
RECURSIVE RemoveTask(_, _)
RemoveTask(coll, taskId) ==
  IF coll = <<>> THEN <<>>
  ELSE IF Head(coll).id = taskId THEN RemoveTask(Tail(coll), taskId)
       ELSE <<Head(coll)>> \o RemoveTask(Tail(coll), taskId)

\* oldData.map(t => t.id === taskId ? {...t, labels: f(t.labels)} : t)
MoveInCache(coll, taskId, newColumn) ==
  [ i \in 1..Len(coll) |->
      IF coll[i].id = taskId
        THEN [coll[i] EXCEPT !.labels = OptimisticLabels(@, newColumn)]
        ELSE coll[i] ]

\* the service's updateTask(taskId, {labels})
SetLabels(coll, taskId, labels) ==
  [ i \in 1..Len(coll) |->
      IF coll[i].id = taskId THEN [coll[i] EXCEPT !.labels = labels]
      ELSE coll[i] ]

(* ------------------------------- state --------------------------------- *)
VARIABLES
  ui,                   \* the board's view state (the useState hooks)
  utcOffset,            \* sign of the browser's offset from UTC
  apiToken,             \* the API credential is set (VITE_TODOIST_API_TOKEN)
  history,              \* the browser's session history: fragments, position
  uncaught,             \* mutations whose mutateAsync promise nobody catches
  unhandled,            \* an unhandled promise rejection was raised
  remote,               \* the service's task collection
  hasData,              \* the tasks query holds data (false: undefined)
  cache,                \* queryClient data of ["tasks"]
  queryError,           \* the tasks query is in the error state
  fetch,                \* the in-flight fetch of the tasks query
  aux,                  \* the other queries that are fetching
  mut,                  \* the mutation invocations
  nmut,                 \* how many were invoked
  debouncedUpdateTask,  \* TodoistService's debounce table: id -> timer
  timerQueue,           \* the armed timers, in the order they were armed
  toast,                \* the toast state
  sent,                 \* mutations whose label update went to the service
  selectedTaskId,
  currentParentId

vars ==
  <<ui, utcOffset, apiToken, history, uncaught, unhandled, remote, hasData, cache, queryError, fetch, aux, mut, nmut,
    debouncedUpdateTask, timerQueue, toast, sent, selectedTaskId,
    currentParentId>>

\* every id a task can carry
AllIds == {1, 2, 3} \cup ForeignIds \cup { NewId(m) : m \in 1..MaxSlots }
                                    \cup { TempId(m) : m \in 1..MaxSlots }

NoSnapshot == [defined |-> FALSE, data |-> <<>>]

NoMut ==
  [ kind |-> "none", status |-> "idle", taskId |-> Null, newColumn |-> "",
    stage |-> "-", op |-> "-", ok |-> FALSE, target |-> Null,
    labels |-> <<>>, parentId |-> Null, previousTasks |-> NoSnapshot,
    pre |-> <<>>, over |-> {}, chain |-> 0, refetched |-> FALSE ]

IdleFetch == [status |-> "idle", data |-> <<>>, by |-> 0]

\* label.startsWith("KANBAN_")
StartsWithKanban(label) ==
  Len(label) >= 7 /\ SubSeq(label, 1, 7) = "KANBAN_"

\* task.labels.filter(label => !label.startsWith("KANBAN_"))
RECURSIVE NonKanbanLabels(_)
NonKanbanLabels(labels) ==
  IF labels = <<>> THEN <<>>
  ELSE IF StartsWithKanban(Head(labels)) THEN NonKanbanLabels(Tail(labels))
       ELSE <<Head(labels)>> \o NonKanbanLabels(Tail(labels))

\* variant: the project list is not consulted
PassesProjects_Always(task) == TRUE

\* the project test of the filter callback of `select`
PassesProjects(task) ==
  ~(ui.selectedProjects # {} /\ task.projectId \notin ui.selectedProjects)

\* variant: every label of the task has to be selected (every for some)
PassesLabels_Every(task) ==
  ui.selectedLabels # {} =>
    LET nonKanbanLabels == NonKanbanLabels(task.labels) IN
      /\ nonKanbanLabels # <<>>
      /\ \A i \in 1..Len(nonKanbanLabels) :
           nonKanbanLabels[i] \in ui.selectedLabels

\* the label test of the filter callback of `select`
PassesLabels(task) ==
  ui.selectedLabels # {} =>
    LET nonKanbanLabels == NonKanbanLabels(task.labels) IN
      /\ nonKanbanLabels # <<>>
      /\ \E i \in 1..Len(nonKanbanLabels) :
           nonKanbanLabels[i] \in ui.selectedLabels

\* the filter callback of `select`
Passes(task, parent) ==
  /\ task.parentId = parent
  /\ PassesProjects(task)
  /\ PassesLabels(task)

\* the `select` projection of the tasks query: the filters, then the column
RECURSIVE Select(_, _)
Select(response, parent) ==
  IF response = <<>> THEN <<>>
  ELSE IF ~Passes(Head(response), parent) THEN Select(Tail(response), parent)
       ELSE << [ id |-> Head(response).id,
                 content |-> Head(response).content,
                 labels |-> Head(response).labels,
                 column |-> ColumnOf(Head(response).labels),
                 priority |-> Head(response).priority,
                 projectId |-> Head(response).projectId,
                 due |-> Head(response).due ] >>
            \o Select(Tail(response), parent)

\* `tasks` of the component: data = [] while the query has none
tasks == IF hasData THEN Select(cache, currentParentId) ELSE <<>>

\* the local calendar day of `new Date(date)` after setHours(0, 0, 0, 0):
\* a date-only string is read as midnight UTC, which west of UTC is still
\* the evening of the day before
LocalDay(date) == IF utcOffset < 0 THEN date - 1 ELSE date

isToday(date) == LocalDay(date) = Today

isTodayOrFuture(date) == LocalDay(date) >= Today

\* the callback of filterTasksByDate
PassesDate(task) ==
  IF task.due = Null THEN FALSE
  ELSE IF ui.dateFilter = "today" THEN isToday(task.due)
  ELSE IF ui.dateFilter = "today_upcoming" THEN isTodayOrFuture(task.due)
  ELSE TRUE

RECURSIVE FilterDate(_)
FilterDate(list) ==
  IF list = <<>> THEN <<>>
  ELSE IF PassesDate(Head(list)) THEN <<Head(list)>> \o FilterDate(Tail(list))
       ELSE FilterDate(Tail(list))

filterTasksByDate(list) ==
  IF ui.dateFilter = "all" THEN list ELSE FilterDate(list)

\* variant: the lowest priority first
Compare_Ascending(a, b) ==
  IF a.priority # b.priority THEN a.priority - b.priority
  ELSE IF a.due # Null /\ b.due # Null THEN a.due - b.due
  ELSE IF a.due # Null /\ b.due = Null THEN 0 - 1
  ELSE IF a.due = Null /\ b.due # Null THEN 1
  ELSE 0

\* the comparator of sortTasks: negative when a goes before b
Compare(a, b) ==
  IF a.priority # b.priority THEN b.priority - a.priority
  ELSE IF a.due # Null /\ b.due # Null THEN a.due - b.due
  ELSE IF a.due # Null /\ b.due = Null THEN 0 - 1
  ELSE IF a.due = Null /\ b.due # Null THEN 1
  ELSE 0

\* x put into a sorted list before the first element it goes before
RECURSIVE InsertSorted(_, _)
InsertSorted(x, sorted) ==
  IF sorted = <<>> THEN <<x>>
  ELSE IF Compare(x, Head(sorted)) < 0 THEN <<x>> \o sorted
       ELSE <<Head(sorted)>> \o InsertSorted(x, Tail(sorted))

\* Array.prototype.sort with the comparator: a stable sort
RECURSIVE SortFrom(_, _)
SortFrom(list, sorted) ==
  IF list = <<>> THEN sorted
  ELSE SortFrom(Tail(list), InsertSorted(Head(list), sorted))

sortTasks(list) == SortFrom(list, <<>>)

\* tasks.filter(task => task.column === column)
RECURSIVE InColumn(_, _)
InColumn(list, column) ==
  IF list = <<>> THEN <<>>
  ELSE IF Head(list).column = column
         THEN <<Head(list)>> \o InColumn(Tail(list), column)
         ELSE InColumn(Tail(list), column)

\* the cards of a column, as rendered
getTasksByColumn(column) ==
  sortTasks(filterTasksByDate(InColumn(tasks, column)))

\* the columns as a set
ColumnSet == { columns[i] : i \in 1..Len(columns) }

\* the ids of the cards rendered in the columns
DisplayedIds ==
  UNION { Ids(getTasksByColumn(c)) : c \in ColumnSet }

\* neither the "Loading tasks..." nor the "Error loading tasks" screen
BoardShown == hasData /\ ~queryError

\* useIsFetching()
isFetching == (IF fetch.status = "idle" THEN 0 ELSE 1) + Cardinality(aux)

\* {isFetching > 0 && <LoadingIndicator />} of the board's main return
IndicatorVisible == BoardShown /\ isFetching > 0

\* what App renders: the missing-credential screen or the board
App_AlwaysBoard(token) == "board"

App(token) == IF ~token THEN "missing-token" ELSE "board"

screen == App(apiToken)

\* session-history entries the browser keeps (older ones are dropped)
MaxHistory == 3

\* the session history of a page opened at a fragment (Null: no fragment)
OpenedAt(fragment) == [entries |-> <<fragment>>, index |-> 1]

\* window.location.hash.slice(1) under session history h
HashOf(h) == h.entries[h.index]

hash == HashOf(history)

\* a navigation to another fragment: the entries after the current one are
\* dropped and the new entry becomes the current one
Push(h, fragment) ==
  LET entries == Append(SubSeq(h.entries, 1, h.index), fragment)
  IN IF Len(entries) > MaxHistory
     THEN [entries |-> Tail(entries), index |-> MaxHistory]
     ELSE [entries |-> entries, index |-> Len(entries)]

\* the URL effect, run when the current parent has become parent
UrlEffect_KeepFragment(h, parent) ==
  IF parent # Null /\ HashOf(h) # parent THEN Push(h, parent) ELSE h

UrlEffect(h, parent) ==
  IF parent # Null
  THEN (IF HashOf(h) # parent THEN Push(h, parent) ELSE h)
  ELSE (IF HashOf(h) # Null THEN Push(h, Null) ELSE h)

\* the state of FilterBar at mount
FilterBarInit ==
  [ selectedIndex |-> 0, currentView |-> "projects", searchQuery |-> "",
    isSearchMode |-> FALSE, searchMatchIndex |-> 0 ]

\* the effect of FilterBar on isOpen, run when the dialog opens
Opened(f) ==
  [f EXCEPT !.selectedIndex = 0, !.currentView = "projects",
            !.searchQuery = ""]

\* the view state at mount, on the root board
UiInit ==
  [ selectedProjects |-> {}, selectedLabels |-> {},
    dateFilter |-> "today_upcoming",
    isSearchMode |-> FALSE, searchQuery |-> "", currentMatchIndex |-> 0,
    searchResults |-> <<>>, isSearchActive |-> FALSE,
    lastKeyPressed |-> "", isFilterModalOpen |-> FALSE,
    isCreateModalOpen |-> FALSE, isHelpOpen |-> FALSE,
    filterBar |-> FilterBarInit ]

\* the view state at mount on the board a fragment names
UiAt(fragment) ==
  [UiInit EXCEPT !.dateFilter =
     IF fragment # Null THEN "all" ELSE "today_upcoming"]

Init ==
  /\ ui = UiInit
  /\ utcOffset = 0
  /\ apiToken = TRUE
  /\ history = OpenedAt(Null)
  /\ uncaught = {}
  /\ unhandled = FALSE
  /\ \E l \in InitLabels : remote = InitRemote(l)
  /\ hasData = FALSE
  /\ cache = <<>>
  /\ queryError = FALSE
  /\ fetch = [status |-> "sent", data |-> <<>>, by |-> 0]
  /\ aux = {"projects"}
  /\ mut = [m \in 1..MaxSlots |-> NoMut]
  /\ nmut = 0
  /\ debouncedUpdateTask = [t \in AllIds |-> 0]
  /\ timerQueue = <<>>
  /\ toast = "null"
  /\ sent = {}
  /\ selectedTaskId = Null
  /\ currentParentId = Null

(* ------------------------- protocol building blocks -------------------- *)
\* variant: onSettled marks the query stale and starts no fetch
Invalidate_NoRefetch(m, data, f) == f

\* queryClient.invalidateQueries({queryKey: ["tasks"]}) issued when mutation
\* m settles: the observed query is refetched; a fetch in flight is dropped
\* and replaced when the query holds data, and is kept when it holds none
Invalidate(m, data, f) ==
  IF ~data /\ f.status # "idle" THEN f
  ELSE [status |-> "sent", data |-> <<>>, by |-> m]

\* the label updates of an id whose timer is armed and has not fired
Unfired(taskId) ==
  { k \in 1..MaxSlots : mut[k].stage = "timer" /\ mut[k].target = taskId }

\* clearTimeout(this.debouncedUpdateTask[taskId]): a timer that has fired
\* or was cleared is not affected
ClearTimer(mt, taskId) ==
  LET old == debouncedUpdateTask[taskId] IN
  IF old # 0 /\ mt[old].stage = "timer"
    THEN [mt EXCEPT ![old].stage = "cleared"]
    ELSE mt

\* the timers left armed by clearTimeout
RECURSIVE Armed(_, _)
Armed(queue, mt) ==
  IF queue = <<>> THEN <<>>
  ELSE IF mt[Head(queue)].stage = "timer"
         THEN <<Head(queue)>> \o Armed(Tail(queue), mt)
         ELSE Armed(Tail(queue), mt)

\* TodoistService.updateTaskLabels(taskId, labels) called by mutation m:
\* clear the timer the table holds for the id, then arm a new one.  `over`
\* and `chain` remember which unfired updates of the id this one follows.
updateTaskLabels(mt, m, taskId, labels) ==
  [ClearTimer(mt, taskId) EXCEPT
     ![m].stage = "timer", ![m].op = "update",
     ![m].target = taskId, ![m].labels = labels,
     ![m].over = Unfired(taskId),
     ![m].chain = IF Unfired(taskId) = {} THEN m
                  ELSE mut[CHOOSE k \in Unfired(taskId) :
                             \A j \in Unfired(taskId) : j <= k].chain]

\* the table and the timer queue after updateTaskLabels of mutation m
TableAfter(m, taskId) == [debouncedUpdateTask EXCEPT ![taskId] = m]

QueueAfter(m, taskId) == Append(Armed(timerQueue, ClearTimer(mut, taskId)), m)

\* the record of a settled mutation: its kind and how it ended (the
\* context and the variables are dropped with the promise)
Settled(r, status) == [NoMut EXCEPT !.kind = r.kind, !.status = status]

\* variant: the snapshot is read after the optimistic write of a move
Started_LateSnapshot(kind, taskId, newColumn) ==
  [NoMut EXCEPT
     !.kind = kind, !.status = "pending", !.taskId = taskId,
     !.newColumn = newColumn, !.parentId = currentParentId,
     !.previousTasks =
        [defined |-> hasData,
         data |-> IF kind = "move"
                    THEN MoveInCache(cache, taskId, newColumn) ELSE cache],
     !.pre = cache]

\* the record of a mutation at the moment mutate() is called
Started(kind, taskId, newColumn) ==
  [NoMut EXCEPT
     !.kind = kind, !.status = "pending", !.taskId = taskId,
     !.newColumn = newColumn, !.parentId = currentParentId,
     !.previousTasks = [defined |-> hasData, data |-> cache],
     !.pre = cache]

(* ------------------------------ move ----------------------------------- *)
\* variant: mutationFn goes on when `tasks.find(...)` found nothing
MoveCalls_NoLookup(taskId, newColumn) ==
  NewKanbanLabel(newColumn) # "undefined"

\* mutationFn: `tasks.find(...)` found the task and the column has a label,
\* so updateTaskLabels is called
MoveCalls(taskId, newColumn) ==
  taskId \in Ids(tasks) /\ NewKanbanLabel(newColumn) # "undefined"

\* task.labels of the task mutationFn found in `tasks`
ViewLabels(taskId) ==
  IF taskId \in Ids(tasks) THEN TaskOf(tasks, taskId).labels ELSE <<>>

\* moveTaskMutation.mutate({taskId, newColumn}): onMutate, then mutationFn;
\* a task that `tasks` does not hold ends the mutation at once (onSettled)
Move(taskId, newColumn, limit) ==
  /\ nmut < limit
  /\ LET m == nmut + 1
         calls == MoveCalls(taskId, newColumn)
         rec == Started("move", taskId, newColumn)
         mt == [mut EXCEPT ![m] = rec]
     IN /\ nmut' = m
        /\ cache' = IF hasData THEN MoveInCache(cache, taskId, newColumn)
                    ELSE cache
        /\ queryError' = IF hasData THEN FALSE ELSE queryError
        /\ IF calls
             THEN /\ mut' = updateTaskLabels(mt, m, taskId,
                               SentLabels(ViewLabels(taskId), newColumn))
                  /\ debouncedUpdateTask' = TableAfter(m, taskId)
                  /\ timerQueue' = QueueAfter(m, taskId)
                  /\ fetch' = IdleFetch
             ELSE /\ mut' = [mt EXCEPT ![m] = Settled(@, "committed")]
                  /\ UNCHANGED <<debouncedUpdateTask, timerQueue>>
                  /\ fetch' = Invalidate(m, hasData, IdleFetch)
  /\ UNCHANGED <<remote, hasData, aux, toast, sent, selectedTaskId,
                 currentParentId>>

\* a card, or foreign drag data, dropped on a column (KanbanColumn.handleDrop)
DropMove ==
  /\ BoardShown
  /\ \E taskId \in Ids(tasks) \cup {3} \cup ForeignIds, newColumn \in DropColumns :
       Move(taskId, newColumn, MaxMut)
  /\ UNCHANGED <<ui, utcOffset, apiToken, history, uncaught, unhandled>>

\* the column h / l moves a card of a column to ("" when there is none)
AdjacentColumn_Swapped(column, key) ==
  LET currentColumnIndex == CHOOSE i \in 1..Len(columns) : columns[i] = column
  IN IF key = "l" /\ currentColumnIndex > 1
       THEN columns[currentColumnIndex - 1]
     ELSE IF key = "h" /\ currentColumnIndex < Len(columns)
       THEN columns[currentColumnIndex + 1]
     ELSE ""

AdjacentColumn(column, key) ==
  LET currentColumnIndex == CHOOSE i \in 1..Len(columns) : columns[i] = column
  IN IF key = "h" /\ currentColumnIndex > 1
       THEN columns[currentColumnIndex - 1]
     ELSE IF key = "l" /\ currentColumnIndex < Len(columns)
       THEN columns[currentColumnIndex + 1]
     ELSE ""

\* h or l on the selected task
KeyMoveBy(key) ==
  /\ selectedTaskId # Null
  /\ selectedTaskId \in Ids(tasks)
  /\ LET newColumn ==
           AdjacentColumn(TaskOf(tasks, selectedTaskId).column, key)
     IN /\ newColumn # ""
        /\ Move(selectedTaskId, newColumn, MaxMut)
  /\ uncaught' = uncaught \cup {nmut + 1}
  /\ UNCHANGED <<ui, utcOffset, apiToken, history, unhandled>>

KeyMove == \E key \in {"h", "l"} : KeyMoveBy(key)

(* ------------------------- create / delete / complete ------------------ *)
\* the placeholder onMutate of createTaskMutation m writes to the cache
OptimisticTask_AtRoot(m, title) ==
  NewTask(TempId(m), title, <<"KANBAN_NOT_SET">>, Null, "", 1, Null)

OptimisticTask(m, title) ==
  NewTask(TempId(m), title, <<"KANBAN_NOT_SET">>, currentParentId, "", 1,
          Null)

\* createTask(title): createTaskMutation.mutateAsync(title)
CreateTask(title) ==
  /\ BoardShown
  /\ nmut < MaxMut
  /\ LET m == nmut + 1
         optimisticTask == OptimisticTask(m, title)
     IN /\ nmut' = m
        /\ cache' = IF hasData THEN Append(cache, optimisticTask)
                    ELSE <<optimisticTask>>
        /\ mut' = [mut EXCEPT ![m] =
                     [Started("create", Null, "") EXCEPT
                        !.stage = "call", !.op = "add"]]
  /\ hasData' = TRUE
  /\ queryError' = FALSE
  /\ fetch' = IdleFetch
  /\ UNCHANGED <<remote, aux, debouncedUpdateTask, timerQueue, toast, sent,
                 selectedTaskId, currentParentId>>
  /\ uncaught' = uncaught \cup {nmut + 1}
  /\ UNCHANGED <<utcOffset, apiToken, history, unhandled>>

\* a task created from the create dialog (the dialog's state not followed)
Create == CreateTask(Title) /\ UNCHANGED ui

\* d / c on the selected task: deleteTaskMutation / completeTaskMutation
Remove(kind, op) ==
  /\ selectedTaskId # Null
  /\ selectedTaskId \in Ids(tasks)
  /\ nmut < MaxMut
  /\ LET m == nmut + 1
     IN /\ nmut' = m
        /\ cache' = RemoveTask(cache, selectedTaskId)
        /\ mut' = [mut EXCEPT ![m] =
                     [Started(kind, selectedTaskId, "") EXCEPT
                        !.stage = "call", !.op = op,
                        !.target = selectedTaskId]]
  /\ queryError' = FALSE
  /\ fetch' = IdleFetch
  /\ UNCHANGED <<remote, hasData, aux, debouncedUpdateTask, timerQueue, toast,
                 sent, selectedTaskId, currentParentId>>
  /\ uncaught' = uncaught \cup {nmut + 1}
  /\ UNCHANGED <<ui, utcOffset, apiToken, history, unhandled>>

KeyDelete == Remove("delete", "delete")

KeyComplete == Remove("complete", "close")

\* a click on a displayed card toggles the selection (followed while a
\* mutation can still be invoked)
ClickTask ==
  /\ BoardShown
  /\ nmut < MaxMut
  /\ \E taskId \in DisplayedIds :
       selectedTaskId' = IF selectedTaskId = taskId THEN Null ELSE taskId
  /\ UNCHANGED <<remote, hasData, cache, queryError, fetch, aux, mut, nmut,
                 debouncedUpdateTask, timerQueue, toast, sent,
                 currentParentId>>
  /\ UNCHANGED <<ui, utcOffset, apiToken, history, uncaught, unhandled>>

(* --------------------------- timers and service ----------------------- *)
\* the 500 ms timer of mutation m fires: api.updateTask(taskId, {labels});
\* timers of one delay fire in the order they were armed
TimerFire(m) ==
  /\ timerQueue # <<>>
  /\ m = Head(timerQueue)
  /\ timerQueue' = Tail(timerQueue)
  /\ mut' = [mut EXCEPT ![m].stage = "call"]
  /\ sent' = sent \cup {m}
  /\ UNCHANGED <<remote, hasData, cache, queryError, fetch, aux, nmut,
                 debouncedUpdateTask, toast, selectedTaskId, currentParentId>>
  /\ UNCHANGED <<ui, utcOffset, apiToken, history, uncaught, unhandled>>

\* what the service's collection becomes when it carries out the call of m
Applied(m) ==
  LET r == mut[m] IN
  CASE r.op = "update" -> SetLabels(remote, r.target, r.labels)
    [] r.op = "add"    -> Append(remote,
                                 NewTask(NewId(m), Title, <<>>, r.parentId,
                                         "p1", 1, Null))
    [] OTHER           -> RemoveTask(remote, r.target)

\* the service handles the call of mutation m: it carries it out, or it
\* fails and changes nothing; a label update of a task it does not hold fails
ServerApply(m) ==
  /\ mut[m].stage = "call"
  /\ \E ok \in BOOLEAN :
       /\ (mut[m].op = "update" /\ mut[m].target \notin Ids(remote)) => ~ok
       /\ remote' = IF ok THEN Applied(m) ELSE remote
       /\ mut' = [mut EXCEPT ![m].stage = "replied", ![m].ok = ok]
  /\ UNCHANGED <<hasData, cache, queryError, fetch, aux, nmut,
                 debouncedUpdateTask, timerQueue, toast, sent, selectedTaskId,
                 currentParentId>>
  /\ UNCHANGED <<ui, utcOffset, apiToken, history, uncaught, unhandled>>

\* onSuccess (delete/complete only) and onSettled of mutation m
Succeed(m, mt) ==
  /\ mut' = [mt EXCEPT ![m] = Settled(@, "committed")]
  /\ selectedTaskId' = IF mut[m].kind \in {"delete", "complete"} THEN Null
                       ELSE selectedTaskId
  /\ fetch' = Invalidate(m, hasData, fetch)
  /\ UNCHANGED <<hasData, cache, queryError, toast>>
  /\ uncaught' = uncaught \ {m}
  /\ UNCHANGED unhandled

\* variant: onError leaves the cache as the optimistic write made it
Fail_NoRestore(m, mt) ==
  /\ mut' = [mt EXCEPT ![m] = Settled(@, "rolledback")]
  /\ UNCHANGED <<cache, hasData, queryError>>
  /\ toast' = "error"
  /\ fetch' = Invalidate(m, hasData', fetch)
  /\ UNCHANGED selectedTaskId
  /\ uncaught' = uncaught \ {m}
  /\ unhandled' = (unhandled \/ m \in uncaught)

\* variant: onError restores the cache and sets no toast
Fail_NoToast(m, mt) ==
  /\ mut' = [mt EXCEPT ![m] = Settled(@, "rolledback")]
  /\ IF mut[m].previousTasks.defined
       THEN /\ cache' = mut[m].previousTasks.data
            /\ hasData' = TRUE
            /\ queryError' = FALSE
       ELSE UNCHANGED <<cache, hasData, queryError>>
  /\ UNCHANGED toast
  /\ fetch' = Invalidate(m, hasData', fetch)
  /\ UNCHANGED selectedTaskId
  /\ uncaught' = uncaught \ {m}
  /\ unhandled' = (unhandled \/ m \in uncaught)

\* onError and onSettled of mutation m
Fail(m, mt) ==
  /\ mut' = [mt EXCEPT ![m] = Settled(@, "rolledback")]
  /\ IF mut[m].previousTasks.defined
       THEN /\ cache' = mut[m].previousTasks.data
            /\ hasData' = TRUE
            /\ queryError' = FALSE
       ELSE UNCHANGED <<cache, hasData, queryError>>
  /\ toast' = "error"
  /\ fetch' = Invalidate(m, hasData', fetch)
  /\ UNCHANGED selectedTaskId
  /\ uncaught' = uncaught \ {m}
  /\ unhandled' = (unhandled \/ m \in uncaught)

\* the reply of api.addTask reaches createTaskMutation.mutationFn
AddReturn(m) ==
  /\ mut[m].stage = "replied"
  /\ mut[m].op = "add"
  /\ IF mut[m].ok
       THEN /\ mut' = updateTaskLabels(mut, m, NewId(m), <<"KANBAN_NOT_SET">>)
            /\ debouncedUpdateTask' = TableAfter(m, NewId(m))
            /\ timerQueue' = QueueAfter(m, NewId(m))
            /\ UNCHANGED <<hasData, cache, queryError, fetch, toast,
                           selectedTaskId, uncaught, unhandled>>
       ELSE /\ Fail(m, mut)
            /\ UNCHANGED <<debouncedUpdateTask, timerQueue>>
  /\ UNCHANGED <<remote, aux, nmut, sent, currentParentId>>
  /\ UNCHANGED <<ui, utcOffset, apiToken, history>>

\* the reply of api.updateTask reaches the timer callback of mutation m
UpdateReturn(m) ==
  /\ mut[m].stage = "replied"
  /\ mut[m].op = "update"
  /\ debouncedUpdateTask' = [debouncedUpdateTask EXCEPT ![mut[m].target] = 0]
  /\ IF mut[m].ok THEN Succeed(m, mut) ELSE Fail(m, mut)
  /\ UNCHANGED <<remote, aux, nmut, timerQueue, sent, currentParentId>>
  /\ UNCHANGED <<ui, utcOffset, apiToken, history>>

\* the reply of api.deleteTask / api.closeTask reaches the mutation
RemoveReturn(m) ==
  /\ mut[m].stage = "replied"
  /\ mut[m].op \in {"delete", "close"}
  /\ IF mut[m].ok THEN Succeed(m, mut) ELSE Fail(m, mut)
  /\ UNCHANGED <<remote, aux, nmut, debouncedUpdateTask, timerQueue, sent,
                 currentParentId>>
  /\ UNCHANGED <<ui, utcOffset, apiToken, history>>

(* ------------------------------ queries -------------------------------- *)
\* the service answers the getTasks call in flight
ServerRead ==
  /\ fetch.status = "sent"
  /\ fetch' = [fetch EXCEPT !.status = "replied", !.data = remote]
  /\ UNCHANGED <<remote, hasData, cache, queryError, aux, mut, nmut,
                 debouncedUpdateTask, timerQueue, toast, sent, selectedTaskId,
                 currentParentId>>
  /\ UNCHANGED <<ui, utcOffset, apiToken, history, uncaught, unhandled>>

\* the answer arrives: the cache takes it
FetchComplete ==
  /\ fetch.status = "replied"
  /\ cache' = fetch.data
  /\ hasData' = TRUE
  /\ queryError' = FALSE
  /\ fetch' = IdleFetch
  /\ aux' = aux
  /\ mut' = IF fetch.by = 0 THEN mut
            ELSE [mut EXCEPT ![fetch.by].refetched = TRUE]
  /\ UNCHANGED <<remote, nmut, debouncedUpdateTask, timerQueue, toast, sent,
                 selectedTaskId, currentParentId>>
  /\ UNCHANGED <<ui, utcOffset, apiToken, history, uncaught, unhandled>>

\* the getTasks call fails for good
FetchFail ==
  /\ fetch.status = "sent"
  /\ fetch' = IdleFetch
  /\ queryError' = TRUE
  /\ UNCHANGED <<remote, hasData, cache, aux, mut, nmut, debouncedUpdateTask,
                 timerQueue, toast, sent, selectedTaskId, currentParentId>>
  /\ UNCHANGED <<ui, utcOffset, apiToken, history, uncaught, unhandled>>

\* a fetch of the projects or of the labels ends
AuxComplete ==
  /\ \E q \in aux : aux' = aux \ {q}
  /\ UNCHANGED <<remote, hasData, cache, queryError, fetch, mut, nmut,
                 debouncedUpdateTask, timerQueue, toast, sent, selectedTaskId,
                 currentParentId>>
  /\ UNCHANGED <<ui, utcOffset, apiToken, history, uncaught, unhandled>>

\* Toast onClose
CloseToast ==
  /\ toast # "null"
  /\ toast' = "null"
  /\ UNCHANGED <<remote, hasData, cache, queryError, fetch, aux, mut, nmut,
                 debouncedUpdateTask, timerQueue, sent, selectedTaskId,
                 currentParentId>>
  /\ UNCHANGED <<ui, utcOffset, apiToken, history, uncaught, unhandled>>

(* --------------------------- specification ----------------------------- *)
Next ==
  \/ DropMove
  \/ KeyMove
  \/ Create
  \/ KeyDelete
  \/ KeyComplete
  \/ ClickTask
  \/ \E m \in 1..MaxSlots : TimerFire(m)
  \/ \E m \in 1..MaxSlots : ServerApply(m)
  \/ \E m \in 1..MaxSlots : AddReturn(m)
  \/ \E m \in 1..MaxSlots : UpdateReturn(m)
  \/ \E m \in 1..MaxSlots : RemoveReturn(m)
  \/ ServerRead
  \/ FetchComplete
  \/ FetchFail
  \/ AuxComplete
  \/ CloseToast

Spec == Init /\ [][Next]_vars

\* one card moved again and again: the user drags task 1 only, the service
\* answers every getTasks call
RapidMove ==
  /\ BoardShown
  /\ \E newColumn \in DropColumns : Move(1, newColumn, MaxMoves)
  /\ UNCHANGED <<ui, utcOffset, apiToken, history, uncaught, unhandled>>

NextDebounce ==
  \/ RapidMove
  \/ \E m \in 1..MaxSlots : TimerFire(m)
  \/ \E m \in 1..MaxSlots : ServerApply(m)
  \/ \E m \in 1..MaxSlots : UpdateReturn(m)
  \/ ServerRead
  \/ FetchComplete
  \/ AuxComplete
  \/ CloseToast

SpecDebounce == Init /\ [][NextDebounce]_vars

TypeOK ==
  /\ nmut \in 0..MaxSlots
  /\ hasData \in BOOLEAN
  /\ toast \in {"null", "error"}
  /\ fetch.status \in {"idle", "sent", "replied"}

(* ------------------------------ filters -------------------------------- *)
\* the tasks a board is filled from: every kind of label list, project,
\* priority and due date, and one subtask
TaskPool ==
  { NewTask(0, "a", <<>>, Null, "p1", 1, Null),
    NewTask(0, "b", <<"KANBAN_NOT_SET">>, Null, "p2", 4, Today),
    NewTask(0, "c", <<"work", "KANBAN_DONE", "KANBAN_TODO">>, Null, "p1", 4,
            Today - 1),
    NewTask(0, "d", <<"KANBAN_REVIEW", "home", "KANBAN_TODO">>, Null, "p2", 1,
            Today + 1),
    NewTask(0, "e", <<"home", "KANBAN_TODO", "work">>, Null, "p1", 4, Today),
    NewTask(0, "f", <<"KANBAN_TODO">>, Null, "p3", 4, Null),
    NewTask(0, "g", <<"KANBAN_TODO", "work">>, 1, "p1", 1, Today),
    NewTask(0, "h", <<"KANBAN_TODO", "errand">>, Null, "p2", 4, Today + 1) }

\* number of tasks of such a board
BoardSize == 3

\* the collections the service may hold: ids are the positions
BoardInputs ==
  { [ i \in 1..BoardSize |-> [pick[i] EXCEPT !.id = i] ] :
      pick \in [1..BoardSize -> TaskPool] }

\* the projects and the labels the filter dialog lists: the labels of the
\* service without those that start with KANBAN_
FilterProjects == {"p1", "p2"}

ServiceLabels == {"work", "home", "KANBAN_TODO", "KANBAN_REVIEW"}

FilterLabels == { l \in ServiceLabels : ~StartsWithKanban(l) }

\* everything but the view state
data ==
  <<utcOffset, apiToken, history,
    uncaught, unhandled, remote, hasData, cache, queryError,
    fetch, aux, mut, nmut, debouncedUpdateTask, timerQueue, toast, sent,
    selectedTaskId, currentParentId>>

\* a loaded, idle board over collection coll, opened at a fragment
LoadedAt(coll, fragment) ==
  /\ ui = UiAt(fragment)
  /\ apiToken = TRUE
  /\ history = OpenedAt(fragment)
  /\ uncaught = {}
  /\ unhandled = FALSE
  /\ remote = coll
  /\ cache = coll
  /\ hasData = TRUE
  /\ queryError = FALSE
  /\ fetch = IdleFetch
  /\ aux = {}
  /\ mut = [m \in 1..MaxSlots |-> NoMut]
  /\ nmut = 0
  /\ debouncedUpdateTask = [t \in AllIds |-> 0]
  /\ timerQueue = <<>>
  /\ toast = "null"
  /\ sent = {}
  /\ selectedTaskId = Null
  /\ currentParentId = fragment

Loaded(coll) == LoadedAt(coll, Null)

InitBoard ==
  /\ utcOffset \in {0 - 1, 0, 1}
  /\ \E coll \in BoardInputs : Loaded(coll)

\* the Filter button
OpenFilters ==
  /\ ~ui.isFilterModalOpen
  /\ ui' = [ui EXCEPT !.isFilterModalOpen = TRUE, !.filterBar = Opened(@)]
  /\ UNCHANGED data

\* FilterBar onClose
CloseFilters ==
  /\ ui.isFilterModalOpen
  /\ ui' = [ui EXCEPT !.isFilterModalOpen = FALSE]
  /\ UNCHANGED data

\* items.includes(x) ? items.filter(y => y !== x) : [...items, x]
Toggled(items, x) == IF x \in items THEN items \ {x} ELSE items \cup {x}

\* FilterBar.handleToggleItem on a project
ToggleProject(p) ==
  /\ ui.isFilterModalOpen
  /\ ui' = [ui EXCEPT !.selectedProjects = Toggled(@, p)]
  /\ UNCHANGED data

\* FilterBar.handleToggleItem on a label
ToggleLabel(l) ==
  /\ ui.isFilterModalOpen
  /\ ui' = [ui EXCEPT !.selectedLabels = Toggled(@, l)]
  /\ UNCHANGED data

\* FilterBar.resetFilters
ResetFilters ==
  /\ ui.isFilterModalOpen
  /\ ui' = [ui EXCEPT !.selectedProjects = {}, !.selectedLabels = {}]
  /\ UNCHANGED data

\* the Today / Today + Upcoming / All Tasks buttons
SetDateFilter(d) ==
  /\ ~ui.isFilterModalOpen
  /\ ui' = [ui EXCEPT !.dateFilter = d]
  /\ UNCHANGED data

NextBoard ==
  \/ OpenFilters
  \/ CloseFilters
  \/ \E p \in FilterProjects : ToggleProject(p)
  \/ \E l \in FilterLabels : ToggleLabel(l)
  \/ ResetFilters
  \/ \E d \in {"today", "today_upcoming", "all"} : SetDateFilter(d)

SpecBoard == InitBoard /\ [][NextBoard]_vars

(* ------------------------------- search ------------------------------- *)
UpperCase == "ABCDEFGHIJKLMNOPQRSTUVWXYZ"

LowerCase == "abcdefghijklmnopqrstuvwxyz"

\* String.prototype.toLowerCase on one character
toLowerChar(ch) ==
  IF \E i \in 1..Len(UpperCase) : SubSeq(UpperCase, i, i) = ch
  THEN LET i == CHOOSE j \in 1..Len(UpperCase) : SubSeq(UpperCase, j, j) = ch
       IN SubSeq(LowerCase, i, i)
  ELSE ch

RECURSIVE toLowerCase(_)
toLowerCase(s) ==
  IF Len(s) = 0 THEN ""
  ELSE toLowerChar(SubSeq(s, 1, 1)) \o toLowerCase(SubSeq(s, 2, Len(s)))

\* String.prototype.includes
includes(s, q) ==
  \E i \in 0..(Len(s) - Len(q)) : SubSeq(s, i + 1, i + Len(q)) = q

\* tasks.filter(task => task.content.toLowerCase().includes(query))
RECURSIVE Matches(_, _)
Matches(list, query) ==
  IF list = <<>> THEN <<>>
  ELSE (IF includes(toLowerCase(Head(list).content), query)
        THEN <<Head(list)>> ELSE <<>>) \o Matches(Tail(list), query)

\* what a handler leaves of the state it can set
Keep ==
  [ui |-> ui, selectedTaskId |-> selectedTaskId,
   currentParentId |-> currentParentId, history |-> history]

\* variant: handleSearch leaves the cursor where it is
handleSearch_KeepIndex(v, list) ==
  IF v.ui.searchQuery = ""
  THEN [v EXCEPT !.ui.searchResults = <<>>, !.selectedTaskId = Null]
  ELSE LET matches == Matches(list, toLowerCase(v.ui.searchQuery)) IN
       [v EXCEPT !.ui.searchResults = matches,
                 !.selectedTaskId =
                    IF Len(matches) > 0 /\ v.ui.isSearchActive
                    THEN matches[1].id ELSE @]

\* handleSearch over view state v and task list list
handleSearch(v, list) ==
  IF v.ui.searchQuery = ""
  THEN [v EXCEPT !.ui.searchResults = <<>>, !.selectedTaskId = Null]
  ELSE LET matches == Matches(list, toLowerCase(v.ui.searchQuery)) IN
       [v EXCEPT !.ui.searchResults = matches,
                 !.ui.currentMatchIndex = 0,
                 !.selectedTaskId =
                    IF Len(matches) > 0 /\ v.ui.isSearchActive
                    THEN matches[1].id ELSE @]

\* the dateFilter effect, run when the current parent has become parent
DateFilterFor_SubBoardOnly(d, parent) == IF parent # Null THEN "all" ELSE d

DateFilterFor(d, parent) == IF parent # Null THEN "all" ELSE "today_upcoming"

\* handleHashChange
handleHashChange_KeepSelection(v) ==
  [v EXCEPT !.currentParentId = HashOf(v.history)]

handleHashChange(v) ==
  [v EXCEPT !.currentParentId = HashOf(v.history), !.selectedTaskId = Null]

\* the effects that run after a handler has left view state v: the date
\* filter and the URL follow the parent, and the search effect runs when
\* the query, the active flag or the task list changed; a fragment the URL
\* effect assigned raises hashchange, handled once the effects have run
EffectsOn(v, coll) ==
  LET moved == v.currentParentId # currentParentId
      w == IF moved
           THEN [v EXCEPT !.ui.dateFilter =
                            DateFilterFor(@, v.currentParentId),
                          !.history = UrlEffect(@, v.currentParentId)]
           ELSE v
      list == IF hasData THEN Select(coll, w.currentParentId) ELSE <<>>
      changed == \/ w.ui.searchQuery # ui.searchQuery
                 \/ w.ui.isSearchActive # ui.isSearchActive
                 \/ list # tasks
      x == IF changed /\ (w.ui.isSearchActive \/ w.ui.searchQuery # "")
           THEN handleSearch(w, list)
           ELSE w
  IN IF moved /\ w.currentParentId # Null /\ w.history # v.history
     THEN handleHashChange(x)
     ELSE x

\* the effects over the cached collection
Effects(v) == EffectsOn(v, cache)

\* handleKeyPress on keydown event e, up to the commands on the selected
\* task
handleKeyPress(e) ==
  IF e.target = "input" /\ ~ui.isSearchMode THEN Keep
  ELSE IF ui.isFilterModalOpen THEN Keep
  ELSE IF e.key = "?" /\ ~ui.isSearchMode
    THEN [Keep EXCEPT !.ui.isHelpOpen = ~@]
  ELSE IF ui.isSearchMode THEN
    IF e.key = "Enter"
      THEN [Keep EXCEPT !.ui.isSearchMode = FALSE,
                        !.ui.isSearchActive = TRUE]
    ELSE IF e.key = "Escape"
      THEN [Keep EXCEPT !.ui.isSearchMode = FALSE,
                        !.ui.searchQuery = "",
                        !.ui.searchResults = <<>>,
                        !.ui.isSearchActive = FALSE]
    ELSE Keep
  ELSE IF ui.lastKeyPressed = "g" THEN
    IF e.key = "f"
      THEN [Keep EXCEPT !.ui.isFilterModalOpen = TRUE,
                        !.ui.filterBar = Opened(@),
                        !.ui.lastKeyPressed = ""]
    ELSE IF e.key = "d" /\ selectedTaskId # Null
      THEN [Keep EXCEPT !.currentParentId = selectedTaskId,
                        !.selectedTaskId = Null,
                        !.ui.lastKeyPressed = ""]
    ELSE [Keep EXCEPT !.ui.lastKeyPressed = ""]
  ELSE IF e.key = "g" THEN [Keep EXCEPT !.ui.lastKeyPressed = "g"]
  ELSE IF e.key = "o" THEN [Keep EXCEPT !.ui.isCreateModalOpen = TRUE]
  ELSE IF ui.isSearchActive /\ e.key = "n" THEN
    IF Len(ui.searchResults) > 0
    THEN LET k == Len(ui.searchResults)
             newIndex == IF e.shiftKey
                         THEN (ui.currentMatchIndex - 1 + k) % k
                         ELSE (ui.currentMatchIndex + 1) % k
         IN [Keep EXCEPT !.ui.currentMatchIndex = newIndex,
                         !.selectedTaskId = ui.searchResults[newIndex + 1].id]
    ELSE Keep
  ELSE IF e.key = "/"
    THEN [Keep EXCEPT !.ui.isSearchMode = TRUE,
                      !.ui.searchQuery = "",
                      !.ui.isSearchActive = FALSE]
  ELSE IF e.key = "Escape" /\ ui.isSearchActive
    THEN [Keep EXCEPT !.ui.searchResults = <<>>,
                      !.ui.isSearchActive = FALSE]
  ELSE Keep

\* the keydown listener of CreateTaskModal
handleEscape(e, v) ==
  IF e.key = "Escape" /\ ui.isCreateModalOpen
  THEN [v EXCEPT !.ui.isCreateModalOpen = FALSE]
  ELSE v

\* the view state after keydown event e: both window listeners, then the
\* effects
KeyResult(e) == Effects(handleEscape(e, handleKeyPress(e)))

\* the event reaches the commands on the selected task (d, c, h, l), which
\* invoke mutations
IsTaskCommand_InSearch(e) ==
  /\ ~(e.target = "input" /\ ~ui.isSearchMode)
  /\ ~ui.isFilterModalOpen
  /\ ui.lastKeyPressed # "g"
  /\ e.key \in {"d", "c", "h", "l"}
  /\ selectedTaskId \in Ids(tasks)

IsTaskCommand(e) ==
  /\ ~(e.target = "input" /\ ~ui.isSearchMode)
  /\ ~ui.isFilterModalOpen
  /\ ~ui.isSearchMode
  /\ ui.lastKeyPressed # "g"
  /\ e.key \in {"d", "c", "h", "l"}
  /\ selectedTaskId \in Ids(tasks)

\* the keys pressed while searching; Shift+n arrives as key "N", and as key
\* "n" with the shift flag only under Caps Lock
SearchKeys ==
  {"/", "Enter", "Escape", "n", "N", "g", "d", "o", "?", "x"}

KeyEvents ==
  { e \in [key : SearchKeys, shiftKey : BOOLEAN, target : {"body", "input"}] :
      /\ e.key \in {"N", "?"} => e.shiftKey
      /\ e.shiftKey => e.key \in {"N", "?", "n"} }

\* the characters typed into the search input and the length typed up to
SearchChars == {"b", "u", "g", "U"}

MaxQuery == 3

\* the board searched: three tasks at the root and one sub-task
SearchBoard ==
  << NewTask(1, "Fix bug A", <<"KANBAN_TODO">>, Null, "p1", 1, Today),
     NewTask(2, "Feature X", <<>>, Null, "p1", 1, Today),
     NewTask(3, "bug report", <<>>, Null, "p1", 4, Null),
     NewTask(4, "BUG child", <<>>, 1, "p1", 1, Null) >>

\* everything but what the key handler and the effects set
store ==
  <<utcOffset, apiToken, uncaught, unhandled, remote, hasData, cache, queryError,
    fetch, aux, mut, nmut, debouncedUpdateTask, timerQueue, toast, sent>>

InitSearch ==
  /\ utcOffset = 0
  /\ Loaded(SearchBoard)

\* the handler and its effects leave view state v
Leaves(v) ==
  /\ ui' = v.ui
  /\ history' = v.history
  /\ selectedTaskId' = v.selectedTaskId
  /\ currentParentId' = v.currentParentId
  /\ UNCHANGED store

\* a keydown event on the window; the focus is in an input only while one
\* is rendered
KeyDown(e) ==
  /\ e.target = "input" => ui.isSearchMode \/ ui.isCreateModalOpen
  /\ ~IsTaskCommand(e)
  /\ Leaves(KeyResult(e))

\* a character typed into the search input: onChange sets the query
Type(ch) ==
  /\ ui.isSearchMode
  /\ Len(ui.searchQuery) < MaxQuery
  /\ Leaves(Effects([Keep EXCEPT !.ui.searchQuery = @ \o ch]))

\* the last character of the search input deleted
Erase ==
  /\ ui.isSearchMode
  /\ ui.searchQuery # ""
  /\ Leaves(Effects([Keep EXCEPT !.ui.searchQuery =
                       SubSeq(@, 1, Len(@) - 1)]))

\* the view state after a click on the back button of a sub-board
GoBackResult ==
  Effects([Keep EXCEPT !.currentParentId = Null, !.selectedTaskId = Null])

\* the back button of a sub-board
GoBack ==
  /\ currentParentId # Null
  /\ Leaves(GoBackResult)

\* CreateTaskModal onClose (Cancel)
CloseCreateModal ==
  /\ ui.isCreateModalOpen
  /\ Leaves([Keep EXCEPT !.ui.isCreateModalOpen = FALSE])

\* HelpPopover onClose
CloseHelp ==
  /\ ui.isHelpOpen
  /\ Leaves([Keep EXCEPT !.ui.isHelpOpen = FALSE])

NextSearch ==
  \/ \E e \in KeyEvents : KeyDown(e)
  \/ \E ch \in SearchChars : Type(ch)
  \/ Erase
  \/ GoBack
  \/ CloseCreateModal
  \/ CloseHelp

SpecSearch == InitSearch /\ [][NextSearch]_vars

(* ---------------------------- filter dialog --------------------------- *)
\* the projects and the labels of the service, as the queries of FilterBar
\* deliver them
projects ==
  << [id |-> "p1", name |-> "Work"], [id |-> "p2", name |-> "Home"] >>

labelItems ==
  << [name |-> "work"], [name |-> "KANBAN_TODO"], [name |-> "home"],
     [name |-> "KANBAN_REVIEW"] >>

IsNonKanban(l) == ~StartsWithKanban(l.name)

\* labels.filter(l => !l.name.startsWith("KANBAN_"))
nonKanbanLabels == SelectSeq(labelItems, IsNonKanban)

\* items.filter(item => item.name.toLowerCase().includes(query))
RECURSIVE NameMatches(_, _)
NameMatches(items, query) ==
  IF items = <<>> THEN <<>>
  ELSE (IF includes(toLowerCase(Head(items).name), query)
        THEN <<Head(items)>> ELSE <<>>) \o NameMatches(Tail(items), query)

\* filteredItems of FilterBar in state f
filteredItems(f) ==
  LET items == IF f.currentView = "projects" THEN projects
               ELSE nonKanbanLabels
  IN IF f.searchQuery = "" THEN items
     ELSE NameMatches(items, toLowerCase(f.searchQuery))

\* handleSearch(forward) of FilterBar
FilterBar_handleSearch(f, forward) ==
  LET k == Len(filteredItems(f)) IN
  IF f.searchQuery = "" \/ k = 0 THEN f
  ELSE LET nextIndex == IF forward THEN (f.searchMatchIndex + 1) % k
                        ELSE (f.searchMatchIndex - 1 + k) % k
       IN [f EXCEPT !.searchMatchIndex = nextIndex,
                    !.selectedIndex = nextIndex]

Min(a, b) == IF a < b THEN a ELSE b

Max(a, b) == IF a > b THEN a ELSE b

\* handleToggleItem on the highlighted item
handleToggleItem(u) ==
  LET f == u.filterBar
      item == filteredItems(f)[f.selectedIndex + 1]
  IN IF f.currentView = "projects"
     THEN [u EXCEPT !.selectedProjects = Toggled(@, item.id)]
     ELSE [u EXCEPT !.selectedLabels = Toggled(@, item.name)]

\* handleKeyDown of FilterBar on keydown event e: the view state it leaves
handleKeyDown(e) ==
  LET f == ui.filterBar
      k == Len(filteredItems(f))
  IN
  IF f.isSearchMode THEN
    IF e.key = "Enter"
      THEN [ui EXCEPT !.filterBar.isSearchMode = FALSE]
    ELSE IF e.key = "Escape"
      THEN [ui EXCEPT !.filterBar.isSearchMode = FALSE,
                      !.filterBar.searchQuery = ""]
    ELSE ui
  ELSE IF e.key = "j"
    THEN [ui EXCEPT !.filterBar.selectedIndex = Min(@ + 1, k - 1)]
  ELSE IF e.key = "k"
    THEN [ui EXCEPT !.filterBar.selectedIndex = Max(@ - 1, 0)]
  ELSE IF e.key = "h" THEN
    IF f.currentView = "labels"
      THEN [ui EXCEPT !.filterBar.currentView = "projects",
                      !.filterBar.selectedIndex = 0,
                      !.filterBar.searchQuery = ""]
      ELSE ui
  ELSE IF e.key = "l" THEN
    IF f.currentView = "projects"
      THEN [ui EXCEPT !.filterBar.currentView = "labels",
                      !.filterBar.selectedIndex = 0,
                      !.filterBar.searchQuery = ""]
      ELSE ui
  ELSE IF e.key = " " THEN
    IF f.selectedIndex \in 0..(k - 1) THEN handleToggleItem(ui) ELSE ui
  ELSE IF e.key = "Enter" THEN [ui EXCEPT !.isFilterModalOpen = FALSE]
  ELSE IF e.key = "C"
    THEN [ui EXCEPT !.selectedProjects = {}, !.selectedLabels = {}]
  ELSE IF e.key = "Escape" THEN
    IF f.searchQuery # ""
      THEN [ui EXCEPT !.filterBar.searchQuery = "",
                      !.filterBar.searchMatchIndex = 0]
      ELSE [ui EXCEPT !.isFilterModalOpen = FALSE]
  ELSE IF e.key = "/" THEN [ui EXCEPT !.filterBar.isSearchMode = TRUE]
  ELSE IF e.key = "n" THEN
    IF f.searchQuery # ""
      THEN [ui EXCEPT !.filterBar = FilterBar_handleSearch(@, ~e.shiftKey)]
      ELSE ui
  ELSE ui

\* the keys pressed in the dialog; Shift+n and Shift+c arrive as "N" and
\* "C", and key "n" carries the shift flag only under Caps Lock
FilterKeys ==
  {"j", "k", "h", "l", " ", "Enter", "C", "Escape", "/", "n", "N"}

FilterEvents ==
  { e \in [key : FilterKeys, shiftKey : BOOLEAN] :
      /\ e.key \in {"N", "C"} => e.shiftKey
      /\ e.shiftKey => e.key \in {"N", "C", "n"} }

\* the characters typed into the search input of the dialog and the length
\* typed up to
FilterChars == {"o", "z"}

MaxFilterQuery == 2

\* a keydown event on the window while the dialog is open
FilterKeyDown(e) ==
  /\ ui.isFilterModalOpen
  /\ ui' = handleKeyDown(e)
  /\ UNCHANGED data

\* onChange of the search input of the dialog
FilterChange(query) ==
  /\ ui.isFilterModalOpen
  /\ ui.filterBar.isSearchMode
  /\ ui' = [ui EXCEPT !.filterBar.searchQuery = query,
                      !.filterBar.searchMatchIndex = 0,
                      !.filterBar.selectedIndex = 0]
  /\ UNCHANGED data

\* a character typed into the search input of the dialog
FilterType(ch) ==
  /\ Len(ui.filterBar.searchQuery) < MaxFilterQuery
  /\ FilterChange(ui.filterBar.searchQuery \o ch)

\* the last character of the search input of the dialog deleted
FilterErase ==
  /\ ui.filterBar.searchQuery # ""
  /\ FilterChange(SubSeq(ui.filterBar.searchQuery, 1,
                         Len(ui.filterBar.searchQuery) - 1))

NextFilter ==
  \/ OpenFilters
  \/ CloseFilters
  \/ \E e \in FilterEvents : FilterKeyDown(e)
  \/ \E ch \in FilterChars : FilterType(ch)
  \/ FilterErase

SpecFilter == InitSearch /\ [][NextFilter]_vars

(* --------------------- search over a changing list --------------------- *)
\* the collections a refetch delivers while the board is searched: the
\* board, or the board less one of its root tasks (removed by another client)
Refreshed ==
  { SearchBoard, RemoveTask(SearchBoard, 1), RemoveTask(SearchBoard, 3) }

\* a refetch of the tasks query (window focus, reconnect) delivers another
\* collection: `tasks` changes, handleSearch is rebuilt and the search
\* effect runs
Refresh ==
  /\ \E coll \in Refreshed :
       /\ coll # cache
       /\ remote' = coll
       /\ cache' = coll
       /\ LET v == EffectsOn(Keep, coll)
          IN /\ ui' = v.ui
             /\ history' = v.history
             /\ selectedTaskId' = v.selectedTaskId
             /\ currentParentId' = v.currentParentId
  /\ UNCHANGED <<utcOffset, apiToken, uncaught, unhandled, hasData,
                 queryError, fetch, aux, mut, nmut, debouncedUpdateTask,
                 timerQueue, toast, sent>>

\* the keys of the search and of the navigation (the dialogs stay closed)
CursorEvents == { e \in KeyEvents : e.key \notin {"o", "?", "x"} }

NextCursor ==
  \/ \E e \in CursorEvents : KeyDown(e)
  \/ \E ch \in SearchChars : Type(ch)
  \/ Erase
  \/ GoBack
  \/ Refresh

SpecCursor == InitSearch /\ [][NextCursor]_vars

(* ------------------------------ keyboard ------------------------------ *)
\* the mutation handleKeyPress issues on keydown event e
NoCommand == [kind |-> "none", taskId |-> Null, newColumn |-> ""]

Command(e) ==
  IF ~IsTaskCommand(e) THEN NoCommand
  ELSE IF e.key = "d"
    THEN [kind |-> "delete", taskId |-> selectedTaskId, newColumn |-> ""]
  ELSE IF e.key = "c"
    THEN [kind |-> "complete", taskId |-> selectedTaskId, newColumn |-> ""]
  ELSE LET newColumn ==
             AdjacentColumn(TaskOf(tasks, selectedTaskId).column, e.key)
       IN IF newColumn # ""
          THEN [kind |-> "move", taskId |-> selectedTaskId,
                newColumn |-> newColumn]
          ELSE NoCommand

\* the keys of the board
BoardKeys == SearchKeys \cup {"f", "c", "h", "l"}

BoardEvents ==
  { e \in [key : BoardKeys, shiftKey : BOOLEAN, target : {"body", "input"}] :
      /\ e.key \in {"N", "?"} => e.shiftKey
      /\ e.shiftKey => e.key \in {"N", "?", "n"} }

\* the board navigated: task 1 with sub-task 2, which has sub-task 3
NavBoard ==
  << NewTask(1, "bug", <<>>, Null, "p1", 1, Today),
     NewTask(2, "sub bug", <<"KANBAN_DONE">>, 1, "p1", 1, Null),
     NewTask(3, "leaf", <<"KANBAN_BLOCKED">>, 2, "p1", 1, Null) >>

\* the fragments the page is opened at
OpenFragments == {Null, 1}

InitKeys ==
  /\ utcOffset = 0
  /\ \E fragment \in OpenFragments : LoadedAt(NavBoard, fragment)

\* mutations followed from the keyboard in one run
MaxCommands == 1

\* no search is active and no query is typed: the search effect does not
\* run when a mutation changes the task list (mutations are followed in
\* such states only)
SearchIdle == ~ui.isSearchActive /\ ui.searchQuery = ""

\* String.prototype.trim
RECURSIVE trim(_)
trim(s) ==
  IF Len(s) = 0 THEN s
  ELSE IF SubSeq(s, 1, 1) = " " THEN trim(SubSeq(s, 2, Len(s)))
  ELSE IF SubSeq(s, Len(s), Len(s)) = " " THEN trim(SubSeq(s, 1, Len(s) - 1))
  ELSE s

\* what is typed into the create dialog
TypedTitles == {"New", " bug ", " "}

\* CreateTaskModal.handleSubmit: a title that is not blank is submitted,
\* trimmed, and the dialog closes
Submit(typed) ==
  /\ ui.isCreateModalOpen
  /\ nmut < MaxCommands
  /\ SearchIdle
  /\ trim(typed) # ""
  /\ CreateTask(trim(typed))
  /\ ui' = [ui EXCEPT !.isCreateModalOpen = FALSE]

\* a keydown event on the window while the filter dialog is closed: the
\* listeners and effects, and the mutation the handler issues
Press(e) ==
  /\ e.target = "input" => ui.isSearchMode \/ ui.isCreateModalOpen
  /\ ~ui.isFilterModalOpen
  /\ LET command == Command(e) IN
       \/ command.kind = "none" /\ Leaves(KeyResult(e))
       \/ /\ nmut < MaxCommands
          /\ SearchIdle
          /\ \/ command.kind = "delete" /\ KeyDelete
             \/ command.kind = "complete" /\ KeyComplete
             \/ command.kind = "move" /\ KeyMoveBy(e.key)

\* the view state after the browser's back (-1) or forward (1) button: a
\* fragment that changed raises hashchange
BrowserResult(delta) ==
  LET h == [history EXCEPT !.index = @ + delta]
      v == [Keep EXCEPT !.history = h]
  IN Effects(IF HashOf(h) # hash THEN handleHashChange(v) ELSE v)

BrowserGo(delta) ==
  /\ history.index + delta \in 1..Len(history.entries)
  /\ Leaves(BrowserResult(delta))

NextKeys ==
  \/ \E e \in BoardEvents : Press(e)
  \/ \E typed \in TypedTitles : Submit(typed)
  \/ Type("b")
  \/ Erase
  \/ ClickTask
  \/ GoBack
  \/ \E delta \in {0 - 1, 1} : BrowserGo(delta)
  \/ CloseCreateModal
  \/ CloseHelp
  \/ CloseFilters

SpecKeys == InitKeys /\ [][NextKeys]_vars

(* ----------------------------- navigation ----------------------------- *)
\* the keys of the drill-down
NavEvents == { e \in BoardEvents : e.key \in {"g", "d"} /\ e.target = "body" }

\* drill-down, back and the date filter buttons, with no mutation issued
NextNav ==
  \/ \E e \in NavEvents : Command(e) = NoCommand /\ Press(e)
  \/ \E d \in {"today", "today_upcoming", "all"} : SetDateFilter(d)
  \/ ClickTask
  \/ GoBack
  \/ \E delta \in {0 - 1, 1} : BrowserGo(delta)

SpecNav == InitKeys /\ [][NextNav]_vars

(* ------------------------------- startup ------------------------------ *)
\* the state after App has rendered: with the board mounted the tasks and
\* projects queries are in flight, else nothing is
InitApp ==
  /\ apiToken \in BOOLEAN
  /\ ui = UiInit
  /\ utcOffset = 0
  /\ history = OpenedAt(Null)
  /\ uncaught = {}
  /\ unhandled = FALSE
  /\ \E l \in InitLabels : remote = InitRemote(l)
  /\ hasData = FALSE
  /\ cache = <<>>
  /\ queryError = FALSE
  /\ fetch = IF screen = "board"
             THEN [status |-> "sent", data |-> <<>>, by |-> 0]
             ELSE IdleFetch
  /\ aux = IF screen = "board" THEN {"projects"} ELSE {}
  /\ mut = [m \in 1..MaxSlots |-> NoMut]
  /\ nmut = 0
  /\ debouncedUpdateTask = [t \in AllIds |-> 0]
  /\ timerQueue = <<>>
  /\ toast = "null"
  /\ sent = {}
  /\ selectedTaskId = Null
  /\ currentParentId = Null

\* the board's operations exist only where the board is mounted
NextApp == screen = "board" /\ Next

SpecApp == InitApp /\ [][NextApp]_vars

(* ------------------------------ properties ----------------------------- *)
\* the failure handler of mutation m runs in this step
RollsBack(m) ==
  mut[m].status = "pending" /\ mut'[m].status = "rolledback"

\* the reply of a remote call of mutation m is handled in this step
ReplyHandled(m) ==
  mut[m].stage = "replied" /\ mut'[m] # mut[m]

\* C1: when the label update of a move of a cached task T fails, then right
\* after the failure handler T's labels in the cache, and the column derived
\* from them, are what they were immediately before the move was invoked.
C1_FailedMoveRestoresTask ==
  [][ \A m \in 1..MaxSlots :
        ( /\ mut[m].kind = "move"
          /\ RollsBack(m)
          /\ mut[m].taskId \in Ids(mut[m].pre) )
        => /\ mut[m].taskId \in Ids(cache')
           /\ TaskOf(cache', mut[m].taskId).labels
                = TaskOf(mut[m].pre, mut[m].taskId).labels
           /\ ColumnOf(TaskOf(cache', mut[m].taskId).labels)
                = ColumnOf(TaskOf(mut[m].pre, mut[m].taskId).labels) ]_vars

\* a move whose label update was sent and failed: the cache is back to what
\* the service holds, the toast is set and the refetch of the move is out
C1_Witness ==
  /\ nmut = 1
  /\ mut[1].kind = "move"
  /\ mut[1].status = "rolledback"
  /\ sent = {1}
  /\ toast = "error"
  /\ cache = remote
  /\ fetch.status = "sent"
  /\ fetch.by = 1

\* C6: when the remote call of a create, delete or complete fails, the cache
\* right after the failure handler equals the collection the cache held when
\* the mutation was invoked.
C6_FailureRestoresSnapshot ==
  [][ \A m \in 1..MaxSlots :
        (mut[m].kind \in {"create", "delete", "complete"} /\ RollsBack(m))
        => cache' = mut[m].pre ]_vars

\* a failed create followed by a failed delete or complete, the placeholder
\* gone and the removed task back
C6_Witness ==
  /\ nmut = 2
  /\ mut[1].kind = "create"
  /\ mut[1].status = "rolledback"
  /\ mut[2].kind \in {"delete", "complete"}
  /\ mut[2].status = "rolledback"
  /\ Ids(cache) = {1, 2, 3}

\* C7: the handling of a failed remote call of a mutation sets the error
\* toast; the handling of a remote call that succeeded leaves the toast as
\* it was.
C7_ToastOnFailureOnly ==
  [][ \A m \in 1..MaxSlots :
        ReplyHandled(m)
        => IF mut[m].ok THEN toast' = toast ELSE toast' = "error" ]_vars

\* one mutation committed without a toast, then one failed and set it
C7_Witness ==
  /\ nmut = 2
  /\ mut[1].status = "committed"
  /\ mut[2].status = "rolledback"
  /\ sent # {}
  /\ toast = "error"

\* the reserved labels: the labels that name a column
ReservedLabels == DOMAIN KANBAN_LABELS

\* the reserved label of a column
LabelOfColumn(c) == CHOOSE l \in ReservedLabels : KANBAN_LABELS[l] = c

IsNotReserved(l) == l \notin ReservedLabels

IsReserved(l) == l \in ReservedLabels

\* the non-reserved labels of a list, in order, then the label of column c
ExpectedLabels(labels, c) ==
  Append(SelectSeq(labels, IsNotReserved), LabelOfColumn(c))

C9_AbsentTaskSkipped ==
  [][ \A t \in AllIds, c \in ColumnSet :
        (Move(t, c, MaxMut) /\ t \notin Ids(cache))
        => /\ cache' = cache
           /\ toast' = toast
           /\ sent' = sent
           /\ remote' = remote
           /\ debouncedUpdateTask' = debouncedUpdateTask
           /\ timerQueue' = timerQueue
           /\ mut'[nmut'].status = "committed"
           /\ \A m \in 1..MaxSlots : mut'[m].stage = "timer" =>
                                        mut[m].stage = "timer" ]_vars

\* foreign drag data was dropped on a column of the idle board: the move is
\* over, nothing was sent, nothing is armed and the cache is what it was
C9_Witness ==
  /\ nmut = 1
  /\ mut[1].kind = "move"
  /\ mut[1].status = "committed"
  /\ sent = {}
  /\ timerQueue = <<>>
  /\ toast = "null"
  /\ cache = remote
  /\ fetch.status = "sent"
  /\ fetch.by = 1

\* mutation m committed after the service carried out its call
RemoteSucceeded(m) ==
  /\ mut[m].status = "committed"
  /\ mut[m].kind # "move" \/ m \in sent

NonePending == \A k \in 1..MaxSlots : mut[k].status # "pending"

\* C8: when a mutation commits on the success of its remote call, the tasks
\* query is refetched on its behalf; and when that refetch completes with
\* no mutation pending, the cache equals the service's collection.
C8_RefetchReconciles ==
  [][ \A m \in 1..MaxSlots :
        /\ (ReplyHandled(m) /\ mut'[m].status = "committed")
           => fetch' = [status |-> "sent", data |-> <<>>, by |-> m]
        /\ ( /\ ~mut[m].refetched
             /\ mut'[m].refetched
             /\ RemoteSucceeded(m)'
             /\ NonePending' )
           => cache' = remote' ]_vars

\* a create went through and its refetch completed: the placeholder is
\* replaced by the task the service created
C8_Witness ==
  /\ nmut = 1
  /\ mut[1].kind = "create"
  /\ mut[1].status = "committed"
  /\ mut[1].refetched
  /\ NewId(1) \in Ids(cache)
  /\ TempId(1) \notin Ids(cache)
  /\ cache = remote

\* a call to the service is in flight: a fetch of the tasks or of another
\* query, or the call of a mutation
RemoteCallInFlight ==
  \/ fetch.status # "idle"
  \/ aux # {}
  \/ \E m \in 1..MaxSlots : mut[m].stage \in {"call", "replied"}

\* C10: while the board is shown and a call to the service is in flight,
\* the syncing indicator is visible.
C10_IndicatorWhileInFlight ==
  (BoardShown /\ RemoteCallInFlight) => IndicatorVisible

\* C4: every pending mutation settles once the calls that were issued have
\* returned; stated on finite runs: a pending mutation always has a timer
\* armed or a call outstanding that will settle it.
C4_PendingCanSettle ==
  \A m \in 1..MaxSlots :
    mut[m].status = "pending" => mut[m].stage \in {"timer", "call", "replied"}

\* C2: of two moves of one task, the second issued while the timer of the
\* first had not fired, the label set of the first is never sent.
C2_SupersededNeverSent ==
  \A m2 \in 1..MaxSlots : \A m1 \in mut[m2].over : m1 \notin sent

\* C3: a run of label updates of one id, each issued before the timer of
\* the one before fired, leads to one call of the service only.
C3_OneCallPerRun ==
  \A m1, m2 \in sent :
    (mut[m1].chain # 0 /\ mut[m1].chain = mut[m2].chain) => m1 = m2

\* C11: a failed remote call of a mutation, however the mutation was
\* started, never surfaces as an unhandled promise rejection.
C11_NoUnhandledRejection == ~unhandled

\* the first reserved label of a list that holds one
FirstReserved(labels) ==
  labels[CHOOSE i \in 1..Len(labels) :
           /\ IsReserved(labels[i])
           /\ \A j \in 1..(i - 1) : ~IsReserved(labels[j])]

HasReserved(labels) == \E i \in 1..Len(labels) : IsReserved(labels[i])

\* C12 as stated: the projected column is NOT_SET exactly when the label
\* list holds no reserved label, and is otherwise the column of the first
\* reserved label.
C12_Original ==
  \A i \in 1..Len(tasks) :
    /\ (tasks[i].column = "NOT_SET") <=> ~HasReserved(tasks[i].labels)
    /\ HasReserved(tasks[i].labels)
         => tasks[i].column = KANBAN_LABELS[FirstReserved(tasks[i].labels)]

\* C12: the projected column is the column of the first reserved label of
\* the list and NOT_SET when the list holds none; so it is NOT_SET exactly
\* when there is no reserved label or the first one is KANBAN_NOT_SET.
C12_ColumnOfFirstReserved ==
  \A i \in 1..Len(tasks) :
    LET L == tasks[i].labels IN
    /\ tasks[i].column = IF HasReserved(L) THEN KANBAN_LABELS[FirstReserved(L)]
                         ELSE "NOT_SET"
    /\ (tasks[i].column = "NOT_SET")
         <=> (~HasReserved(L) \/ FirstReserved(L) = "KANBAN_NOT_SET")

\* a board with a task whose first reserved label is KANBAN_DONE, before
\* KANBAN_TODO, and a task that carries KANBAN_NOT_SET
C12_Witness ==
  /\ Len(tasks) = BoardSize
  /\ \E i, j \in 1..Len(tasks) :
       /\ tasks[i].labels = <<"work", "KANBAN_DONE", "KANBAN_TODO">>
       /\ tasks[i].column = "DONE"
       /\ tasks[j].labels = <<"KANBAN_NOT_SET">>
       /\ tasks[j].column = "NOT_SET"

\* the cached tasks of the current parent
OfParent == { i \in 1..Len(cache) : cache[i].parentId = currentParentId }

\* C13: with projects selected every displayed task is of a selected
\* project, and with no other filter set the displayed tasks are all tasks
\* of the current parent that are of a selected project; with no project
\* selected the project filter hides nothing.
C13_ProjectFilter ==
  LET P == ui.selectedProjects IN
  /\ P # {} =>
       \A i \in 1..Len(cache) :
         cache[i].id \in DisplayedIds => cache[i].projectId \in P
  /\ (ui.selectedLabels = {} /\ ui.dateFilter = "all") =>
       DisplayedIds
         = { cache[i].id : i \in { k \in OfParent :
                                     P = {} \/ cache[k].projectId \in P } }

\* project p1 is selected on a board that holds a p2 task: some task is
\* displayed and some is hidden by the project filter alone
C13_Witness ==
  /\ ui.selectedProjects = {"p1"}
  /\ ui.selectedLabels = {}
  /\ ui.dateFilter = "all"
  /\ DisplayedIds # {}
  /\ \E i \in OfParent :
       cache[i].projectId = "p2" /\ cache[i].id \notin DisplayedIds

\* C16: with labels selected and no project selected, a task of the current
\* parent passes exactly when one of its non-reserved labels is selected;
\* with no label selected the label filter hides nothing.
C16_LabelFilter ==
  LET A == ui.selectedLabels IN
  ui.selectedProjects = {} =>
    Ids(tasks)
      = { cache[i].id : i \in { k \in OfParent :
            A = {} \/ \E n \in 1..Len(cache[k].labels) :
                         /\ IsNotReserved(cache[k].labels[n])
                         /\ cache[k].labels[n] \in A } }

\* label work is selected: a task that carries work and home passes, a task
\* with reserved labels only is hidden
C16_Witness ==
  /\ ui.selectedLabels = {"work"}
  /\ ui.selectedProjects = {}
  /\ \E i, j \in OfParent :
       /\ cache[i].labels = <<"home", "KANBAN_TODO", "work">>
       /\ cache[i].id \in Ids(tasks)
       /\ cache[j].labels = <<"KANBAN_NOT_SET">>
       /\ cache[j].id \notin Ids(tasks)

\* the projected tasks that are rendered / not rendered
Shown(i) == tasks[i].id \in DisplayedIds

\* C14: under date filter "today" a task is displayed exactly when it has a
\* due date and that date is the current calendar date.
C14_TodayFilter ==
  ui.dateFilter = "today" =>
    \A i \in 1..Len(tasks) :
      Shown(i) <=> (tasks[i].due # Null /\ tasks[i].due = Today)

\* C15: under date filter today-or-later a task is displayed exactly when it
\* has a due date on or after the current calendar date; an undated task is
\* hidden under both date-bounded filters; "all" hides no task.
C15_TodayOrLaterFilter ==
  /\ ui.dateFilter = "today_upcoming" =>
       \A i \in 1..Len(tasks) :
         Shown(i) <=> (tasks[i].due # Null /\ tasks[i].due >= Today)
  /\ ui.dateFilter # "all" =>
       \A i \in 1..Len(tasks) : tasks[i].due = Null => ~Shown(i)
  /\ ui.dateFilter = "all" => \A i \in 1..Len(tasks) : Shown(i)

\* a goes before b in a column: higher priority; at equal priority the
\* earlier date, or a date against none
Before(a, b) ==
  \/ a.priority > b.priority
  \/ /\ a.priority = b.priority
     /\ a.due # Null
     /\ b.due = Null \/ a.due < b.due

\* C17: the cards of a column are the date-filtered tasks of the column,
\* each once, ordered by priority descending, then due date ascending with
\* undated tasks last; tasks equal on both keys keep the order of the list.
C17_ColumnOrder ==
  \A c \in ColumnSet :
    LET input == filterTasksByDate(InColumn(tasks, c))
        cards == getTasksByColumn(c)
    IN /\ Len(cards) = Len(input)
       /\ Ids(cards) = Ids(input)
       /\ \A i, j \in 1..Len(cards) :
            i < j => /\ ~Before(cards[j], cards[i])
                     /\ ~Before(cards[i], cards[j]) => cards[i].id < cards[j].id

\* a column of three cards that the sort has reordered and that holds two
\* cards equal on both keys
C17_Witness ==
  \E c \in ColumnSet :
    LET cards == getTasksByColumn(c) IN
    /\ Len(cards) = 3
    /\ cards[1].priority > cards[3].priority
    /\ cards[1].id > cards[3].id
    /\ \E i, j \in 1..3 :
         i < j /\ ~Before(cards[i], cards[j]) /\ ~Before(cards[j], cards[i])

\* C18: the search-result list always is the list of the tasks of the
\* current board whose content contains the query, case ignored, in the
\* order of the task list, and the empty list when the query is empty.
C18_SearchResults ==
  ui.searchResults =
    IF ui.searchQuery = "" THEN <<>>
    ELSE Matches(tasks, toLowerCase(ui.searchQuery))

\* the commands "next" and "previous" as the keyboard delivers them
NextKey == [key |-> "n", shiftKey |-> FALSE, target |-> "body"]

PreviousKey == [key |-> "N", shiftKey |-> TRUE, target |-> "body"]

\* C19: with a search active and no key prefix pending, "next" leaves the
\* cursor at (i+1) mod k and "previous" at (i-1) mod k and the selection on
\* the match at the new cursor; with no match neither changes anything.
C19_NextPrevious ==
  ui.isSearchActive /\ ~ui.isSearchMode /\ ui.lastKeyPressed # "g"
    /\ ~ui.isFilterModalOpen =>
    LET k == Len(ui.searchResults)
        i == ui.currentMatchIndex
        MovesTo(v, j) ==
          /\ v.ui.currentMatchIndex = j
          /\ v.selectedTaskId = ui.searchResults[j + 1].id
        Same(v) ==
          /\ v.ui.currentMatchIndex = i
          /\ v.selectedTaskId = selectedTaskId
    IN IF k >= 1
       THEN /\ MovesTo(KeyResult(NextKey), (i + 1) % k)
            /\ MovesTo(KeyResult(PreviousKey), (i - 1 + k) % k)
       ELSE Same(KeyResult(NextKey)) /\ Same(KeyResult(PreviousKey))

EscapeKey == [key |-> "Escape", shiftKey |-> FALSE, target |-> "body"]

\* C20: Escape pressed while a search is active, with no key prefix pending
\* and no filter dialog open, leaves, after its effects, no search result
\* and no active search and the current parent as it was; an Escape changes
\* the current parent only when no search is active.
C20_EscapeClearsSearch ==
  /\ ui.isSearchActive /\ ui.lastKeyPressed # "g" /\ ~ui.isFilterModalOpen =>
       LET v == KeyResult(EscapeKey) IN
       /\ v.ui.searchResults = <<>>
       /\ ~v.ui.isSearchActive
       /\ v.currentParentId = currentParentId
  /\ KeyResult(EscapeKey).currentParentId # currentParentId =>
       ~ui.isSearchActive

\* the second keys of a sequence begun with g that are no command
Unrecognized(e) ==
  /\ e.target = "body"
  /\ e.key # "f"
  /\ ~(e.key = "d" /\ selectedTaskId # Null)

\* C21: with g pressed and no dialog open, a second key other than f, or d
\* with a task selected, only returns the dispatcher to its normal state:
\* it issues no mutation and changes nothing else.
C21_SecondKeyCancels ==
  ui.lastKeyPressed = "g" /\ ~ui.isFilterModalOpen /\ ~ui.isCreateModalOpen =>
    \A e \in BoardEvents :
      Unrecognized(e) =>
        /\ KeyResult(e) = [Keep EXCEPT !.ui.lastKeyPressed = ""]
        /\ Command(e) = NoCommand

\* C22: in text-entry mode of the search no key press issues a mutation,
\* opens a dialog, toggles the help, changes the parent or the key prefix or
\* moves the match cursor off the first match; keys other than Enter and
\* Escape change nothing at all.
C22_SearchModeIsolation ==
  ui.isSearchMode =>
    \A e \in BoardEvents :
      LET v == KeyResult(e) IN
      /\ Command(e) = NoCommand
      /\ v.currentParentId = currentParentId
      /\ v.history = history
      /\ v.ui.isFilterModalOpen = ui.isFilterModalOpen
      /\ v.ui.isHelpOpen = ui.isHelpOpen
      /\ v.ui.isCreateModalOpen => ui.isCreateModalOpen
      /\ v.ui.lastKeyPressed = ui.lastKeyPressed
      /\ v.ui.currentMatchIndex \in {0, ui.currentMatchIndex}
      /\ e.key \notin {"Enter", "Escape"} => v = Keep

\* text-entry mode with a query typed and a task of the board selected
C22_Witness ==
  /\ ui.isSearchMode
  /\ ui.searchQuery # ""
  /\ selectedTaskId \in Ids(tasks)

DKey == [key |-> "d", shiftKey |-> FALSE, target |-> "body"]

\* C23: with g pressed, d with task T selected leaves, after its effects, T
\* as the current parent, T's id as the URL fragment and no selection; with
\* no task selected it leaves the parent and the session history as they
\* were.
C23_DrillDown ==
  ui.lastKeyPressed = "g" /\ ~ui.isFilterModalOpen =>
    LET v == KeyResult(DKey) IN
    IF selectedTaskId # Null
    THEN /\ v.currentParentId = selectedTaskId
         /\ HashOf(v.history) = selectedTaskId
         /\ v.selectedTaskId = Null
    ELSE /\ v.currentParentId = currentParentId
         /\ v.history = history

\* a sub-board entered from a board with an active search that matches one
\* of the sub-board's tasks: no selection is left
C23_Witness ==
  /\ currentParentId # Null
  /\ hash = currentParentId
  /\ history.index > 1
  /\ history.entries[history.index - 1] # currentParentId
  /\ selectedTaskId = Null
  /\ ui.isSearchActive
  /\ ui.searchResults # <<>>
  /\ ui.lastKeyPressed = ""

\* C24: on a sub-board reached from another board, the back button and the
\* browser's back both make the board it was reached from the current one:
\* after root -> A -> B that is A, and after root -> A it is the root.
C24_BackToPreviousParent ==
  currentParentId # Null /\ hash = currentParentId /\ history.index > 1 =>
    LET previous == history.entries[history.index - 1] IN
    /\ GoBackResult.currentParentId = previous
    /\ BrowserResult(0 - 1).currentParentId = previous

\* C25: once the effects of an event have run, the URL fragment is the
\* current parent id, and it is absent exactly on the root board.
C25_FragmentIsParent ==
  /\ hash = currentParentId
  /\ hash = Null <=> currentParentId = Null

\* the root board reached again from a sub-board, with the sub-board's
\* entry behind the current one in the session history
C25_Witness ==
  /\ history.index > 1
  /\ history.entries[history.index - 1] # Null
  /\ hash = Null
  /\ currentParentId = Null

HKey == [key |-> "h", shiftKey |-> FALSE, target |-> "body"]

LKey == [key |-> "l", shiftKey |-> FALSE, target |-> "body"]

\* the move of the selected task to a column
MoveTo(column) ==
  [kind |-> "move", taskId |-> selectedTaskId, newColumn |-> column]

\* C26: with a task of the board selected and the dispatcher in its normal
\* state, h issues a move of the task to the column left of its column and
\* l to the column right of it, in the order NOT_SET, TODO, IN_PROGRESS,
\* BLOCKED, DONE; h in NOT_SET and l in DONE issue nothing; the key changes
\* no view state.
C26_AdjacentColumn ==
  /\ columns = <<"NOT_SET", "TODO", "IN_PROGRESS", "BLOCKED", "DONE">>
  /\ selectedTaskId \in Ids(tasks) /\ ~ui.isSearchMode
       /\ ui.lastKeyPressed # "g" /\ ~ui.isFilterModalOpen =>
       LET column == TaskOf(tasks, selectedTaskId).column
           i == CHOOSE j \in 1..Len(columns) : columns[j] = column
       IN /\ Command(HKey) =
               IF i > 1 THEN MoveTo(columns[i - 1]) ELSE NoCommand
          /\ Command(LKey) =
               IF i < 5 THEN MoveTo(columns[i + 1]) ELSE NoCommand
          /\ KeyResult(HKey) = Keep
          /\ KeyResult(LKey) = Keep

\* task 3 moved by l from BLOCKED to DONE and still selected: a further l
\* issues nothing
C26_Witness ==
  /\ nmut = 1
  /\ mut[1].kind = "move"
  /\ mut[1].taskId = 3
  /\ mut[1].newColumn = "DONE"
  /\ selectedTaskId = 3
  /\ selectedTaskId \in Ids(tasks)
  /\ TaskOf(tasks, 3).column = "DONE"
  /\ Command(LKey) = NoCommand

\* C27: Escape pressed on a sub-board, with no search active or being
\* typed, no dialog open and no key prefix pending, leaves another board
\* current and no task selected.
C27_EscapeGoesBack ==
  /\ currentParentId # Null
  /\ ~ui.isSearchActive /\ ~ui.isSearchMode /\ ui.lastKeyPressed # "g"
  /\ ~ui.isFilterModalOpen /\ ~ui.isCreateModalOpen /\ ~ui.isHelpOpen
  => LET v == KeyResult(EscapeKey) IN
     /\ v.currentParentId # currentParentId
     /\ v.selectedTaskId = Null

\* C28: with no API credential the missing-credential screen is shown, the
\* board is not mounted and no call to the service is issued or in flight.
C28_MissingCredential ==
  ~apiToken =>
    /\ screen = "missing-token"
    /\ ~RemoteCallInFlight
    /\ nmut = 0
    /\ sent = {}
    /\ timerQueue = <<>>
    /\ ~hasData

\* App has rendered without a credential
C28_Witness == ~apiToken /\ screen # "board" /\ fetch = IdleFetch

\* a delete or a complete is invoked in this step
RemovalInvoked ==
  nmut' = nmut + 1 /\ mut'[nmut'].kind \in {"delete", "complete"}

\* the tasks of a collection other than T, in their order
Others(coll, T) == SelectSeq(coll, LAMBDA t : t.id # T)

CreateInvoked == nmut' = nmut + 1 /\ mut'[nmut'].kind = "create"

\* C30: the step that invokes create with a title appends one task to the
\* cache and leaves the tasks it held as they were; the appended task has
\* the title as content, the current parent as parent and KANBAN_NOT_SET as
\* its only label, and the board lists it in column NOT_SET.
C30_CreatePlaceholder ==
  [][ CreateInvoked =>
        LET old == IF hasData THEN cache ELSE <<>>
            placeholder == cache'[Len(cache')]
        IN /\ Len(cache') = Len(old) + 1
           /\ SubSeq(cache', 1, Len(old)) = old
           /\ placeholder.id \notin Ids(old)
           /\ placeholder.content \in {"New", "bug"}
           /\ placeholder.parentId = currentParentId
           /\ placeholder.labels = <<"KANBAN_NOT_SET">>
           /\ ColumnOf(placeholder.labels) = "NOT_SET"
           /\ \E i \in 1..Len(tasks') :
                /\ tasks'[i].id = placeholder.id
                /\ tasks'[i].column = "NOT_SET"
                /\ tasks'[i].content = placeholder.content ]_vars

\* a placeholder created on a sub-board from a title typed with blanks
C30_Witness ==
  /\ nmut = 1
  /\ mut[1].kind = "create"
  /\ mut[1].stage = "call"
  /\ currentParentId # Null
  /\ cache[Len(cache)].content = "bug"
  /\ cache[Len(cache)].parentId = currentParentId
  /\ ~ui.isCreateModalOpen

\* C31: a step that changes the current parent leaves the date filter "all"
\* when the new board is a sub-board and today-or-later when it is the root
\* board, whatever the date filter was.
C31_DateFilterReset ==
  [][ currentParentId' # currentParentId =>
        ui'.dateFilter = IF currentParentId' # Null THEN "all"
                         ELSE "today_upcoming" ]_vars

\* the root board reached again from a sub-board, with the date filter of
\* the root board
C31_Witness ==
  /\ currentParentId = Null
  /\ history.index > 1
  /\ history.entries[history.index - 1] # Null
  /\ ui.dateFilter = "today_upcoming"

\* a mutation on one task
OnTask(m) == mut[m].kind \in {"move", "delete", "complete"}

\* C32: when the failure handler of a mutation runs while a mutation on
\* another task is pending, the other task is in the cache after the handler
\* exactly as it was before it: absent if it was absent, and with the same
\* labels if it was present.
C32_RollbackIsolation ==
  [][ \A m, n \in 1..MaxSlots :
        ( /\ m # n /\ OnTask(m) /\ OnTask(n)
          /\ RollsBack(m)
          /\ mut[n].status = "pending"
          /\ mut[n].taskId # mut[m].taskId )
        => LET T == mut[n].taskId IN
           /\ T \in Ids(cache') <=> T \in Ids(cache)
           /\ T \in Ids(cache) => TaskOf(cache', T) = TaskOf(cache, T) ]_vars

\* the cache shows task T in a column
ShowsIn(coll, T, column) ==
  T \in Ids(coll) /\ ColumnOf(TaskOf(coll, T).labels) = column

\* C33: when a refetch started by the settlement of another mutation
\* completes while a move of T is pending and the cache shows T in the
\* move's target column, the cache shows T in that column afterwards too.
C33_RefetchKeepsOptimistic ==
  [][ FetchComplete =>
        \A m \in 1..MaxSlots :
          ( /\ mut[m].kind = "move"
            /\ mut[m].status = "pending"
            /\ fetch.by \notin {0, m}
            /\ ShowsIn(cache, mut[m].taskId, mut[m].newColumn) )
          => ShowsIn(cache', mut[m].taskId, mut[m].newColumn) ]_vars

\* C34: a delete, complete or move that a key press issues acts on a task
\* that some column displays under the current parent, project, label and
\* date filters.
C34_KeyActsOnDisplayed ==
  \A e \in BoardEvents :
    Command(e).kind # "none" => Command(e).taskId \in DisplayedIds

\* C35: the label list a move sends to the service is the list its
\* optimistic update wrote to the cache, so that the refetch that follows a
\* successful move (here the only mutation invoked) leaves the labels, and
\* with them the column, of every cached task as they were.
C35_RefetchAfterMoveStable ==
  [][ ( /\ FetchComplete
        /\ nmut = 1
        /\ fetch.by = 1
        /\ mut[1].kind = "move"
        /\ mut[1].status = "committed" )
      => \A t \in Ids(cache) :
           /\ t \in Ids(cache')
           /\ TaskOf(cache', t).labels = TaskOf(cache, t).labels ]_vars

\* C36: every task id has at most one label update whose timer is armed
\* and has not fired, and the debounce table holds an entry for the id
\* exactly when there is one, a call in flight for the id or not.
C36_OneUnfiredPerId ==
  \A taskId \in AllIds :
    /\ Cardinality(Unfired(taskId)) <= 1
    /\ debouncedUpdateTask[taskId] # 0 <=> Unfired(taskId) # {}

\* C37: whenever the list of search results is not empty, the cursor is an
\* index of the list.
C37_CursorInRange ==
  ui.searchResults # <<>>
    => ui.currentMatchIndex \in 0..(Len(ui.searchResults) - 1)

\* the cursor stands on the second of two matches, moved there by n
C37_Witness ==
  /\ ui.isSearchActive
  /\ Len(ui.searchResults) = 2
  /\ ui.currentMatchIndex = 1
  /\ selectedTaskId = ui.searchResults[2].id

\* C38: from its invocation until it settles, a create mutation invoked on
\* the board being viewed has its task displayed in the NOT_SET column of
\* that board.
C38_CreatedTaskDisplayed ==
  \A m \in 1..MaxSlots :
    ( /\ mut[m].kind = "create"
      /\ mut[m].status = "pending"
      /\ mut[m].parentId = currentParentId )
    => TempId(m) \in Ids(getTasksByColumn("NOT_SET"))

\* C39: while the filter dialog is open its highlighted index is never
\* negative, and it is the index of an item whenever the list of items is
\* not empty.
C39_HighlightInRange ==
  ui.isFilterModalOpen =>
    LET f == ui.filterBar IN
    /\ f.selectedIndex >= 0
    /\ Len(filteredItems(f)) > 0 => f.selectedIndex < Len(filteredItems(f))
====
